---- MODULE Spec2Model ----
(***************************************************************************)
(* Model of cmd/litestream/main_windows.go.                                *)
(*                                                                         *)
(* Spec      windowsService.Execute, the svc.Handler that drives one       *)
(*           ReplicateCommand from the control requests of the Windows     *)
(*           service manager.  Each statement that talks to a channel or   *)
(*           to the worker is one step; pc is the statement Execute is at. *)
(*           Both channels are unbuffered, so a send or a receive is a     *)
(*           rendezvous with the service manager.                          *)
(* SpecRun   runWindowsService around it: event log, logger destination,  *)
(*           deferred calls, svc.Run.                                      *)
(* SpecWrite eventlogWriter.Write.                                         *)
(* LiveSpec  Execute with the service manager's offers and fair steps.     *)
(***************************************************************************)
EXTENDS Integers, Sequences, FiniteSets, TLC

\* Number of control requests the service manager delivers in one run.
MaxReqs == 5

\* svc.Cmd values Execute has a case for, and one it has none for.
KnownCmds == {"Interrogate", "Stop", "Shutdown", "Pause", "Continue"}
UnknownCmds == {"ParamChange"}
Cmds == KnownCmds \cup UnknownCmds

\* svc.Accepted bits, as the set of requests each bit announces.
AcceptStop == {"Stop"}
AcceptShutdown == {"Shutdown"}
AcceptPauseAndContinue == {"Pause", "Continue"}

accepts_NoPause == AcceptStop \cup AcceptShutdown

\* const accepts = svc.AcceptStop | svc.AcceptShutdown | svc.AcceptPauseAndContinue
accepts == AcceptStop \cup AcceptShutdown \cup AcceptPauseAndContinue

\* svc.Status{State: s, Accepts: a}; a composite literal without Accepts has none.
Status(s, a) == [State |-> s, Accepts |-> a]
NoStatus == Status("None", {})

VARIABLES
    pc,          \* the statement Execute is at
    c,           \* the ReplicateCommand held by the local c (0 before line 60)
    nextId,      \* identity of the next ReplicateCommand NewReplicateCommand returns
    live,        \* the commands whose Run was called and whose Close was not
    changeReq,   \* the svc.ChangeRequest last received from changeReqCh
    hostStatus,  \* the status the service manager last received from statusCh
    elog,        \* the records written to the event log
    trace,       \* what Execute did at its interfaces, in order
    rpc,         \* the statement runWindowsService is at
    logOutput,   \* the destination of the process-wide logger (log.SetOutput)
    priorOutput, \* the destination the logger had when line 32 replaced it
    handle,      \* the *eventlog.Log of line 25: "none", "open" or "closed"
    handleCloses, \* how many times elog.Close() was called
    defers,      \* the deferred calls of runWindowsService, oldest first
    failure,     \* the library call of runWindowsService that failed, if any
    result,      \* what runWindowsService returned
    written,     \* the calls of eventlogWriter.Write, in order
    pending      \* the request the service manager is offering on changeReqCh

execVars == <<pc, c, nextId, live, changeReq, hostStatus, trace>>
runVars == <<rpc, logOutput, priorOutput, handle, handleCloses, defers, failure, result>>
vars == <<execVars, elog, runVars, written, pending>>

\* A step of Execute: svc.Run is in progress (line 41) and the step touches
\* nothing of runWindowsService.
InExecute ==
    /\ rpc = "SvcRun"
    /\ UNCHANGED <<runVars, written, pending>>

\* One entry of trace.
Ev(kind, cmd, id, wasLive, status) ==
    [kind |-> kind, cmd |-> cmd, id |-> id, wasLive |-> wasLive, status |-> status]
RecvEv(cmd) == Ev("recv", cmd, 0, FALSE, NoStatus)
StartEv(id) == Ev("start", "None", id, FALSE, NoStatus)
CloseEv(id, wasLive) == Ev("close", "None", id, wasLive, NoStatus)
ReportEv(st) == Ev("report", "None", 0, FALSE, st)

IsRecv(e) == e.kind = "recv"
IsStart(e) == e.kind = "start"
IsClose(e) == e.kind = "close"
IsReport(e) == e.kind = "report"

RecvEvents == SelectSeq(trace, IsRecv)
StartEvents == SelectSeq(trace, IsStart)
CloseEvents == SelectSeq(trace, IsClose)
ReportEvents == SelectSeq(trace, IsReport)

\* The requests read from changeReqCh, the statuses sent on statusCh.
Reqs == [i \in 1..Len(RecvEvents) |-> RecvEvents[i].cmd]
Reports == [i \in 1..Len(ReportEvents) |-> ReportEvents[i].status]
ReportStates == [i \in 1..Len(ReportEvents) |-> ReportEvents[i].status.State]

\* s.elog.Info(1, msg) and s.elog.Error(1, msg)
Info(eid, msg) == Append(elog, [etype |-> "Info", eid |-> eid, msg |-> msg])
Error(eid, msg) == Append(elog, [etype |-> "Error", eid |-> eid, msg |-> msg])

\* statusCh <- st: the service manager receives st and keeps it as its status.
Send(st) ==
    /\ hostStatus' = st
    /\ trace' = Append(trace, ReportEv(st))

\* c = NewReplicateCommand(); c.Run(s.ctx)
RunNew_SameInstance ==
    /\ c' = c
    /\ nextId' = nextId
    /\ live' = live \cup {c}
    /\ trace' = Append(trace, StartEv(c))

RunNew ==
    /\ c' = nextId
    /\ nextId' = nextId + 1
    /\ live' = live \cup {nextId}
    /\ trace' = Append(trace, StartEv(nextId))

\* c.Close()
Close_Skipped ==
    /\ live' = live
    /\ trace' = trace

Close ==
    /\ live' = live \ {c}
    /\ trace' = Append(trace, CloseEv(c, c \in live))

\* The case of the switch a request goes to.
Dispatch(cmd) == IF cmd \in KnownCmds THEN cmd ELSE "Default"

\* Entry to Execute: svc.Run (line 41) has called the handler.
Init ==
    /\ pc = "SendStartPending"
    /\ c = 0
    /\ nextId = 1
    /\ live = {}
    /\ changeReq = [Cmd |-> "None", CurrentStatus |-> NoStatus]
    /\ hostStatus = Status("Stopped", {})
    /\ elog = <<[etype |-> "Info", eid |-> 1, msg |-> "Litestream service starting"]>>
    /\ trace = <<>>
    /\ rpc = "SvcRun"
    /\ logOutput = "Eventlog"
    /\ priorOutput = "Stderr"
    /\ handle = "open"
    /\ handleCloses = 0
    /\ defers = <<"elog.Close", "log.SetOutput">>
    /\ failure = "none"
    /\ result = "none"
    /\ written = <<>>
    /\ pending = "None"

SendStartPending_WithAccepts ==
    /\ pc = "SendStartPending"
    /\ Send(Status("StartPending", accepts))
    /\ pc' = "Start"
    /\ UNCHANGED <<c, nextId, live, changeReq, elog>>
    /\ InExecute

\* statusCh <- svc.Status{State: svc.StartPending}
SendStartPending ==
    /\ pc = "SendStartPending"
    /\ Send(Status("StartPending", {}))
    /\ pc' = "Start"
    /\ UNCHANGED <<c, nextId, live, changeReq, elog>>
    /\ InExecute

\* c := NewReplicateCommand(); c.Run(s.ctx)
Start ==
    /\ pc = "Start"
    /\ RunNew
    /\ pc' = "SendRunning"
    /\ UNCHANGED <<changeReq, hostStatus, elog>>
    /\ InExecute

\* statusCh <- svc.Status{State: svc.Running, Accepts: accepts}
SendRunning ==
    /\ pc = "SendRunning"
    /\ Send(Status("Running", accepts))
    /\ pc' = "Receive"
    /\ UNCHANGED <<c, nextId, live, changeReq, elog>>
    /\ InExecute

\* case changeReq := <-changeReqCh: switch changeReq.Cmd
\* The service manager sends the request with the status it last received.
Receive ==
    /\ pc = "Receive"
    /\ Len(RecvEvents) < MaxReqs
    /\ \E cmd \in Cmds :
          /\ changeReq' = [Cmd |-> cmd, CurrentStatus |-> hostStatus]
          /\ trace' = Append(trace, RecvEv(cmd))
          /\ pc' = Dispatch(cmd)
    /\ UNCHANGED <<c, nextId, live, hostStatus, elog>>
    /\ InExecute

Interrogate_Recomputed ==
    /\ pc = "Interrogate"
    /\ elog' = Info(1, "Litestream service interrograted")
    /\ Send(Status("Running", accepts))
    /\ pc' = "Receive"
    /\ UNCHANGED <<c, nextId, live, changeReq>>
    /\ InExecute

\* case svc.Interrogate: statusCh <- changeReq.CurrentStatus
Interrogate ==
    /\ pc = "Interrogate"
    /\ elog' = Info(1, "Litestream service interrograted")
    /\ Send(changeReq.CurrentStatus)
    /\ pc' = "Receive"
    /\ UNCHANGED <<c, nextId, live, changeReq>>
    /\ InExecute

\* case svc.Stop: c.Close()
StopClose ==
    /\ pc = "Stop"
    /\ elog' = Info(1, "Litestream service stopped")
    /\ Close
    /\ pc' = "StopSend"
    /\ UNCHANGED <<c, nextId, changeReq, hostStatus>>
    /\ InExecute

StopSend_Returns ==
    /\ pc = "StopSend"
    /\ Send(Status("StopPending", {}))
    /\ pc' = "Returned"
    /\ UNCHANGED <<c, nextId, live, changeReq, elog>>
    /\ InExecute

\* statusCh <- svc.Status{State: svc.StopPending}; the loop goes on
StopSend ==
    /\ pc = "StopSend"
    /\ Send(Status("StopPending", {}))
    /\ pc' = "Receive"
    /\ UNCHANGED <<c, nextId, live, changeReq, elog>>
    /\ InExecute

ShutdownClose_NoClose ==
    /\ pc = "Shutdown"
    /\ elog' = Info(1, "Litestream service shutting down")
    /\ Close_Skipped
    /\ pc' = "ShutdownSend"
    /\ UNCHANGED <<c, nextId, changeReq, hostStatus>>
    /\ InExecute

\* case svc.Shutdown: c.Close()
ShutdownClose ==
    /\ pc = "Shutdown"
    /\ elog' = Info(1, "Litestream service shutting down")
    /\ Close
    /\ pc' = "ShutdownSend"
    /\ UNCHANGED <<c, nextId, changeReq, hostStatus>>
    /\ InExecute

\* statusCh <- svc.Status{State: svc.StopPending}; the loop goes on
ShutdownSend ==
    /\ pc = "ShutdownSend"
    /\ Send(Status("StopPending", {}))
    /\ pc' = "Receive"
    /\ UNCHANGED <<c, nextId, live, changeReq, elog>>
    /\ InExecute

PauseClose_NoClose ==
    /\ pc = "Pause"
    /\ elog' = Info(1, "Litestream service paused")
    /\ Close_Skipped
    /\ pc' = "PauseSend"
    /\ UNCHANGED <<c, nextId, changeReq, hostStatus>>
    /\ InExecute

\* case svc.Pause: c.Close()
PauseClose ==
    /\ pc = "Pause"
    /\ elog' = Info(1, "Litestream service paused")
    /\ Close
    /\ pc' = "PauseSend"
    /\ UNCHANGED <<c, nextId, changeReq, hostStatus>>
    /\ InExecute

PauseSend_NoAccepts ==
    /\ pc = "PauseSend"
    /\ Send(Status("Paused", {}))
    /\ pc' = "Receive"
    /\ UNCHANGED <<c, nextId, live, changeReq, elog>>
    /\ InExecute

\* statusCh <- svc.Status{State: svc.Paused, Accepts: accepts}
PauseSend ==
    /\ pc = "PauseSend"
    /\ Send(Status("Paused", accepts))
    /\ pc' = "Receive"
    /\ UNCHANGED <<c, nextId, live, changeReq, elog>>
    /\ InExecute

ContinueClose_NoClose ==
    /\ pc = "Continue"
    /\ elog' = Info(1, "Litestream service continuing")
    /\ Close_Skipped
    /\ pc' = "ContinueStart"
    /\ UNCHANGED <<c, nextId, changeReq, hostStatus>>
    /\ InExecute

\* case svc.Continue: c.Close()
ContinueClose ==
    /\ pc = "Continue"
    /\ elog' = Info(1, "Litestream service continuing")
    /\ Close
    /\ pc' = "ContinueStart"
    /\ UNCHANGED <<c, nextId, changeReq, hostStatus>>
    /\ InExecute

ContinueStart_SameInstance ==
    /\ pc = "ContinueStart"
    /\ RunNew_SameInstance
    /\ pc' = "ContinueSend"
    /\ UNCHANGED <<changeReq, hostStatus, elog>>
    /\ InExecute

\* c = NewReplicateCommand(); c.Run(s.ctx)
ContinueStart ==
    /\ pc = "ContinueStart"
    /\ RunNew
    /\ pc' = "ContinueSend"
    /\ UNCHANGED <<changeReq, hostStatus, elog>>
    /\ InExecute

ContinueSend_Skipped ==
    /\ pc = "ContinueSend"
    /\ pc' = "Receive"
    /\ UNCHANGED <<c, nextId, live, changeReq, hostStatus, elog, trace>>
    /\ InExecute

\* statusCh <- svc.Status{State: svc.Running, Accepts: accepts}
ContinueSend ==
    /\ pc = "ContinueSend"
    /\ Send(Status("Running", accepts))
    /\ pc' = "Receive"
    /\ UNCHANGED <<c, nextId, live, changeReq, elog>>
    /\ InExecute

Default_Reports ==
    /\ pc = "Default"
    /\ elog' = Error(1, "unexpected control request")
    /\ Send(changeReq.CurrentStatus)
    /\ pc' = "Receive"
    /\ UNCHANGED <<c, nextId, live, changeReq>>
    /\ InExecute

\* default: s.elog.Error(1, fmt.Sprintf("unexpected control request #%d", changeReq))
Default ==
    /\ pc = "Default"
    /\ elog' = Error(1, "unexpected control request")
    /\ pc' = "Receive"
    /\ UNCHANGED <<c, nextId, live, changeReq, hostStatus, trace>>
    /\ InExecute

Next ==
    \/ SendStartPending
    \/ Start
    \/ SendRunning
    \/ Receive
    \/ Interrogate
    \/ StopClose
    \/ StopSend
    \/ ShutdownClose
    \/ ShutdownSend
    \/ PauseClose
    \/ PauseSend
    \/ ContinueClose
    \/ ContinueStart
    \/ ContinueSend
    \/ Default

Spec == Init /\ [][Next]_vars

PcValues ==
    {"SendStartPending", "Start", "SendRunning", "Receive", "Interrogate",
     "Stop", "StopSend", "Shutdown", "ShutdownSend", "Pause", "PauseSend",
     "Continue", "ContinueStart", "ContinueSend", "Default", "Returned",
     "NotStarted"}

TypeOK ==
    /\ pc \in PcValues
    /\ c \in 0..(MaxReqs + 1)
    /\ nextId \in 1..(MaxReqs + 2)
    /\ live \subseteq 1..(MaxReqs + 1)
    /\ changeReq.Cmd \in Cmds \cup {"None"}
    /\ Len(RecvEvents) <= MaxReqs

(***************************************************************************)
(* runWindowsService, lines 24-47.  The library calls eventlog.Open,       *)
(* eventlog.InstallAsEventCreate and svc.Run succeed or fail as the        *)
(* system decides.  A return statement sets result and then runs the       *)
(* deferred calls, newest first.                                           *)
(***************************************************************************)

\* Before line 25: nothing is open, the logger writes where package log
\* starts it (os.Stderr), the handler has not been called.
InitRun ==
    /\ pc = "NotStarted"
    /\ c = 0
    /\ nextId = 1
    /\ live = {}
    /\ changeReq = [Cmd |-> "None", CurrentStatus |-> NoStatus]
    /\ hostStatus = Status("Stopped", {})
    /\ elog = <<>>
    /\ trace = <<>>
    /\ rpc = "Open"
    /\ logOutput = "Stderr"
    /\ priorOutput = "Stderr"
    /\ handle = "none"
    /\ handleCloses = 0
    /\ defers = <<>>
    /\ failure = "none"
    /\ result = "none"
    /\ written = <<>>
    /\ pending = "None"

\* elog, err := eventlog.Open(serviceName); if err != nil { return err }
OpenFail ==
    /\ rpc = "Open"
    /\ failure' = "Open"
    /\ result' = "err"
    /\ rpc' = "Return"
    /\ UNCHANGED <<execVars, elog, logOutput, priorOutput, handle, handleCloses,
                   defers, written, pending>>

\* elog, err := eventlog.Open(serviceName); defer elog.Close()
OpenOk ==
    /\ rpc = "Open"
    /\ handle' = "open"
    /\ defers' = Append(defers, "elog.Close")
    /\ rpc' = "SetOutput"
    /\ UNCHANGED <<execVars, elog, logOutput, priorOutput, handleCloses,
                   failure, result, written, pending>>

SetOutput_NoDefer ==
    /\ rpc = "SetOutput"
    /\ priorOutput' = logOutput
    /\ logOutput' = "Eventlog"
    /\ defers' = defers
    /\ rpc' = "Install"
    /\ UNCHANGED <<execVars, elog, handle, handleCloses, failure, result,
                   written, pending>>

\* log.SetOutput((*eventlogWriter)(elog)); defer log.SetOutput(os.Stderr)
SetOutput ==
    /\ rpc = "SetOutput"
    /\ priorOutput' = logOutput
    /\ logOutput' = "Eventlog"
    /\ defers' = Append(defers, "log.SetOutput")
    /\ rpc' = "Install"
    /\ UNCHANGED <<execVars, elog, handle, handleCloses, failure, result,
                   written, pending>>

InstallFail_Ignored ==
    /\ rpc = "Install"
    /\ failure' = "Install"
    /\ elog' = Info(1, "Litestream service starting")
    /\ rpc' = "SvcRun"
    /\ UNCHANGED <<execVars, logOutput, priorOutput, handle, handleCloses,
                   defers, result, written, pending>>

\* if err := eventlog.InstallAsEventCreate(...); err != nil { return fmt.Errorf(...) }
InstallFail ==
    /\ rpc = "Install"
    /\ failure' = "Install"
    /\ result' = "cannot install event log"
    /\ rpc' = "Return"
    /\ UNCHANGED <<execVars, elog, logOutput, priorOutput, handle, handleCloses,
                   defers, written, pending>>

\* InstallAsEventCreate returned nil; elog.Info(1, "Litestream service starting")
InstallOk ==
    /\ rpc = "Install"
    /\ elog' = Info(1, "Litestream service starting")
    /\ rpc' = "SvcRun"
    /\ UNCHANGED <<execVars, logOutput, priorOutput, handle, handleCloses,
                   defers, failure, result, written, pending>>

\* svc.Run(serviceName, &windowsService{...}) calls the handler's Execute.
SvcRunExecute ==
    /\ rpc = "SvcRun"
    /\ pc = "NotStarted"
    /\ pc' = "SendStartPending"
    /\ UNCHANGED <<c, nextId, live, changeReq, hostStatus, trace, elog,
                   runVars, written, pending>>

\* svc.Run returned an error without calling the handler:
\* elog.Error(1, "Litestream service failed: ..."); return errStop
SvcRunFail ==
    /\ rpc = "SvcRun"
    /\ pc = "NotStarted"
    /\ failure' = "svc.Run"
    /\ elog' = Error(1, "Litestream service failed")
    /\ result' = "errStop"
    /\ rpc' = "Return"
    /\ UNCHANGED <<execVars, logOutput, priorOutput, handle, handleCloses,
                   defers, written, pending>>

\* svc.Run returned nil, the service manager having ended the service:
\* elog.Info(1, "Litestream service exited"); return nil
SvcRunReturn ==
    /\ rpc = "SvcRun"
    /\ pc # "NotStarted"
    /\ elog' = Info(1, "Litestream service exited")
    /\ result' = "nil"
    /\ rpc' = "Return"
    /\ UNCHANGED <<execVars, logOutput, priorOutput, handle, handleCloses,
                   defers, failure, written, pending>>

\* The effect of one deferred call.
RunCall(call) ==
    /\ logOutput' = IF call = "log.SetOutput" THEN "Stderr" ELSE logOutput
    /\ handle' = IF call = "elog.Close" THEN "closed" ELSE handle
    /\ handleCloses' = IF call = "elog.Close" THEN handleCloses + 1 ELSE handleCloses

RunDeferred_OldestFirst ==
    /\ rpc = "Return"
    /\ defers # <<>>
    /\ RunCall(Head(defers))
    /\ defers' = Tail(defers)
    /\ UNCHANGED <<execVars, elog, rpc, priorOutput, failure, result, written, pending>>

\* On return the deferred calls run, the one deferred last first.
RunDeferred ==
    /\ rpc = "Return"
    /\ defers # <<>>
    /\ RunCall(defers[Len(defers)])
    /\ defers' = SubSeq(defers, 1, Len(defers) - 1)
    /\ UNCHANGED <<execVars, elog, rpc, priorOutput, failure, result, written, pending>>

\* All deferred calls have run: runWindowsService has returned.
Returned ==
    /\ rpc = "Return"
    /\ defers = <<>>
    /\ rpc' = "Done"
    /\ UNCHANGED <<execVars, elog, logOutput, priorOutput, handle, handleCloses,
                   defers, failure, result, written, pending>>

NextRun ==
    \/ OpenFail
    \/ OpenOk
    \/ SetOutput
    \/ InstallFail
    \/ InstallOk
    \/ SvcRunExecute
    \/ SvcRunFail
    \/ SvcRunReturn
    \/ RunDeferred
    \/ Returned
    \/ SendStartPending
    \/ Start
    \/ SendRunning
    \/ Receive
    \/ Interrogate
    \/ StopClose
    \/ StopSend
    \/ ShutdownClose
    \/ ShutdownSend
    \/ PauseClose
    \/ PauseSend
    \/ ContinueClose
    \/ ContinueStart
    \/ ContinueSend
    \/ Default

SpecRun == InitRun /\ [][NextRun]_vars

RpcValues == {"Open", "SetOutput", "Install", "SvcRun", "Return", "Done"}

TypeOKRun ==
    /\ pc \in PcValues
    /\ rpc \in RpcValues
    /\ logOutput \in {"Stderr", "Eventlog"}
    /\ handle \in {"none", "open", "closed"}
    /\ failure \in {"none", "Open", "Install", "svc.Run"}
    /\ result \in {"none", "nil", "err", "cannot install event log", "errStop"}
    /\ Len(defers) <= 2

(***************************************************************************)
(* eventlogWriter.Write, lines 103-105, called by package log while the    *)
(* writer is the logger's destination.                                     *)
(***************************************************************************)

\* Number of Write calls in one run.
MaxWrites == 3

\* The buffers handed to Write and the answers of the event log.
Bufs == {"", "hello", "a\nb", "hello\n"}
SinkErrs == {"nil", "ERROR_INVALID_HANDLE"}

\* string(p): the bytes of p, unchanged, as a string.
String(p) == p

Write_DropsError(p, sinkErr) ==
    [p |-> p, etype |-> "Info", eid |-> 1, msg |-> String(p),
     sinkErr |-> sinkErr, n |-> 0, err |-> "nil"]

\* return 0, (*eventlog.Log)(w).Info(1, string(p)): the call made to the
\* event log, its answer sinkErr, and what Write returns.
Write(p, sinkErr) ==
    [p |-> p, etype |-> "Info", eid |-> 1, msg |-> String(p),
     sinkErr |-> sinkErr, n |-> 0, err |-> sinkErr]

\* One call of Write; the event log keeps the record unless it answers an error.
LogWrite ==
    /\ logOutput = "Eventlog"
    /\ Len(written) < MaxWrites
    /\ \E p \in Bufs, sinkErr \in SinkErrs :
          LET w == Write(p, sinkErr)
          IN  /\ sinkErr = "nil" => handle = "open"
              /\ written' = Append(written, w)
              /\ elog' = IF sinkErr = "nil"
                         THEN Append(elog, [etype |-> w.etype, eid |-> w.eid, msg |-> w.msg])
                         ELSE elog
    /\ UNCHANGED <<execVars, runVars, pending>>

NextWrite == LogWrite

SpecWrite == Init /\ [][NextWrite]_vars

(***************************************************************************)
(* Execute with the service manager offering requests on changeReqCh:      *)
(* pending is the request it is trying to send.  Every step of Execute     *)
(* that can be taken is eventually taken: Close returns, and the service   *)
(* manager receives from statusCh.                                         *)
(***************************************************************************)

\* Number of control requests the service manager offers in one run.
MaxOffers == 3

\* The service manager has a request to send.
Offer ==
    /\ rpc = "SvcRun"
    /\ pending = "None"
    /\ Len(RecvEvents) < MaxOffers
    /\ \E cmd \in Cmds : pending' = cmd
    /\ UNCHANGED <<execVars, elog, runVars, written>>

\* case changeReq := <-changeReqCh: the offered request is received.
ReceivePending ==
    /\ rpc = "SvcRun"
    /\ pc = "Receive"
    /\ pending # "None"
    /\ changeReq' = [Cmd |-> pending, CurrentStatus |-> hostStatus]
    /\ trace' = Append(trace, RecvEv(pending))
    /\ pc' = Dispatch(pending)
    /\ pending' = "None"
    /\ UNCHANGED <<c, nextId, live, hostStatus, elog, runVars, written>>

ExecuteStep ==
    \/ SendStartPending
    \/ Start
    \/ SendRunning
    \/ ReceivePending
    \/ Interrogate
    \/ StopClose
    \/ StopSend
    \/ ShutdownClose
    \/ ShutdownSend
    \/ PauseClose
    \/ PauseSend
    \/ ContinueClose
    \/ ContinueStart
    \/ ContinueSend
    \/ Default

NextLive ==
    \/ Offer
    \/ ExecuteStep

LiveSpec == Init /\ [][NextLive]_vars /\ WF_vars(ExecuteStep)

(***************************************************************************)
(* Observations of a run, read off trace.                                  *)
(***************************************************************************)
NumStarts == Len(StartEvents)
NumCloses == Len(CloseEvents)
NumLiveCloses == Len(SelectSeq(CloseEvents, LAMBDA e : e.wasLive))

\* The status sent last before position i of trace.
LastReportBefore(i) ==
    LET js == {j \in 1..(i - 1) : IsReport(trace[j])}
    IN  IF js = {} THEN NoStatus
        ELSE trace[CHOOSE j \in js : \A k \in js : k <= j].status

\* Position of the first request in trace, or one past its end.
FirstRecv ==
    LET js == {j \in 1..Len(trace) : IsRecv(trace[j])}
    IN  IF js = {} THEN Len(trace) + 1
        ELSE CHOOSE j \in js : \A k \in js : j <= k

\* The request read at position i was Stop or Shutdown, and its Close and
\* its StopPending report are both done.
StopProcessedAt(i) ==
    /\ IsRecv(trace[i])
    /\ trace[i].cmd \in {"Stop", "Shutdown"}
    /\ i + 2 <= Len(trace)

StopProcessed == \E i \in 1..Len(trace) : StopProcessedAt(i)

\* C1: once a Stop or Shutdown request has been fully processed (Close has
\* returned, StopPending has been sent), Execute returns and no further
\* request is read from changeReqCh.
C1_LoopExitsAfterStop ==
    \A i \in 1..Len(trace) :
        StopProcessedAt(i) =>
            /\ pc = "Returned"
            /\ \A j \in (i + 1)..Len(trace) : ~IsRecv(trace[j])

\* C2: after a Stop or Shutdown request has been processed no worker is
\* running in any later state, whatever requests follow.
C2_NoWorkerAfterStop == StopProcessed => live = {}

\* C3: in every reachable state at most one worker instance is live.
C3_AtMostOneLive == Cardinality(live) <= 1

\* A Continue was received while the worker was running and has been
\* processed; a second Pause/Continue cycle is under way or done.
C3_Witness ==
    /\ pc = "Receive"
    /\ Cardinality(live) = 1
    /\ \E i \in 1..(Len(trace) - 1) :
          /\ IsRecv(trace[i]) /\ trace[i].cmd = "Continue"
          /\ IsClose(trace[i + 1]) /\ trace[i + 1].wasLive
    /\ Len(SelectSeq(RecvEvents, LAMBDA e : e.cmd = "Pause")) >= 2

\* C4: before any request is read Execute issues exactly one worker start
\* and then reports Running with accepts {Stop, Shutdown, Pause, Continue};
\* start, then the Running report, then the first read of changeReqCh.
C4_InitialTransition ==
    LET pre == SubSeq(trace, 1, FirstRecv - 1)
        act == SelectSeq(pre, LAMBDA e : e # ReportEv(Status("StartPending", {})))
    IN  /\ pc \in {"SendStartPending", "Start", "SendRunning"} => RecvEvents = <<>>
        /\ Len(act) <= 2
        /\ Len(act) >= 1 => IsStart(act[1])
        /\ Len(act) >= 2 =>
              act[2] = ReportEv(Status("Running", {"Stop", "Shutdown", "Pause", "Continue"}))
        /\ pc \notin {"SendStartPending", "Start", "SendRunning"} => Len(act) = 2

\* The first request has just been read.
C4_Witness ==
    /\ Len(RecvEvents) = 1
    /\ IsRecv(trace[Len(trace)])
    /\ NumStarts = 1

\* C5 as claimed: Close is issued only while a worker is live; no Close is
\* ever called on an instance that is already closed.
C5_CloseOnlyWhileLive ==
    \A i \in 1..Len(trace) : IsClose(trace[i]) => trace[i].wasLive

\* C5 as amended: every worker instance is started once and goes from live
\* to closed at most once, never becoming live again; Close is also called
\* on instances that are already closed, and only on those that were closed
\* by an earlier Close.
C5_Amended ==
    \A id \in 1..(nextId - 1) :
        LET S == {i \in 1..Len(trace) : IsStart(trace[i]) /\ trace[i].id = id}
            K == {i \in 1..Len(trace) : IsClose(trace[i]) /\ trace[i].id = id}
            E == {i \in K : trace[i].wasLive}
        IN  /\ Cardinality(S) = 1
            /\ Cardinality(E) <= 1
            /\ \A k \in K : \A s \in S : s < k
            /\ \A k \in K \ E : \E e \in E : e < k
            /\ id \in live <=> K = {}
            /\ \A i \in 1..Len(trace) : IsClose(trace[i]) => trace[i].id \in 1..(nextId - 1)

\* A Continue after a Pause has called Close on the instance the Pause had
\* closed, and a Stop received in Paused has done so as well.
C5_Witness ==
    /\ pc = "Receive"
    /\ \E i \in 1..(Len(trace) - 1) :
          /\ IsRecv(trace[i]) /\ trace[i].cmd = "Continue"
          /\ IsClose(trace[i + 1]) /\ ~trace[i + 1].wasLive
    /\ \E i \in 1..(Len(trace) - 1) :
          /\ IsRecv(trace[i]) /\ trace[i].cmd = "Stop"
          /\ IsClose(trace[i + 1]) /\ ~trace[i + 1].wasLive

\* The requests [Pause, Interrogate, Continue, Stop] have all been processed.
ScenarioDone ==
    /\ Reqs = <<"Pause", "Interrogate", "Continue", "Stop">>
    /\ pc = "Receive"

\* C6 as claimed: the requests [Pause, Interrogate, Continue, Stop] give the
\* reported states [Running, Paused, Paused, Running, StopPending] from the
\* Running report on, with exactly two starts and exactly two Close calls.
C6_ScenarioTwoCloses ==
    ScenarioDone =>
        /\ SubSeq(ReportStates, 2, Len(ReportStates)) =
              <<"Running", "Paused", "Paused", "Running", "StopPending">>
        /\ NumStarts = 2
        /\ NumCloses = 2

\* C6 as amended: the requests [Pause, Interrogate, Continue, Stop] give the
\* reported states [StartPending, Running, Paused, Paused, Running,
\* StopPending], with exactly two starts and exactly three Close calls, two
\* of them on a live instance (the Close of Continue finds the instance the
\* Pause has closed).
C6_Amended ==
    ScenarioDone =>
        /\ ReportStates =
              <<"StartPending", "Running", "Paused", "Paused", "Running", "StopPending">>
        /\ NumStarts = 2
        /\ NumCloses = 3
        /\ NumLiveCloses = 2

C6_Witness == ScenarioDone /\ NumCloses = 3 /\ hostStatus.State = "StopPending"

\* C7: when Stop is the only request after the initial Running report there
\* is exactly one start and one Close, the loop exits, and StopPending is
\* the last report emitted.
C7_StopOnly ==
    (Reqs = <<"Stop">> /\ Len(trace) >= 6) =>
        /\ NumStarts = 1
        /\ NumCloses = 1
        /\ pc = "Returned"
        /\ trace[Len(trace)] = ReportEv(Status("StopPending", {}))

\* C8: processing an Interrogate request issues no start and no Close,
\* leaves the reported state as it was, and emits exactly one report, equal
\* to the report emitted immediately before it.
C8_InterrogateEchoes ==
    /\ \A i \in 1..Len(trace) :
          (IsRecv(trace[i]) /\ trace[i].cmd = "Interrogate") =>
              /\ i + 1 <= Len(trace) => trace[i + 1] = ReportEv(LastReportBefore(i))
              /\ i + 2 <= Len(trace) => IsRecv(trace[i + 2])
              /\ i = Len(trace) => pc = "Interrogate" /\ hostStatus = LastReportBefore(i)
    /\ pc = "Interrogate" => changeReq.Cmd = "Interrogate" /\ IsRecv(trace[Len(trace)])

\* An Interrogate has been answered while Paused and another after a Stop.
C8_Witness ==
    /\ \E i \in 1..(Len(trace) - 1) :
          /\ IsRecv(trace[i]) /\ trace[i].cmd = "Interrogate"
          /\ IsReport(trace[i + 1]) /\ trace[i + 1].status.State = "Paused"
    /\ \E i \in 1..(Len(trace) - 1) :
          /\ IsRecv(trace[i]) /\ trace[i].cmd = "Interrogate"
          /\ IsReport(trace[i + 1]) /\ trace[i + 1].status.State = "StopPending"

\* C9: processing a request with an unrecognized code leaves the reported
\* state and the worker unchanged, emits no report, and does not end the
\* loop: Execute goes back to reading changeReqCh.
C9_UnknownIgnored ==
    /\ [](changeReq.Cmd \in UnknownCmds /\ pc # "Receive" => pc = "Default")
    /\ [][pc = "Default" =>
            /\ pc' = "Receive"
            /\ UNCHANGED <<c, nextId, live, hostStatus, trace>>]_vars

\* An unrecognized request was processed while Paused and the next request
\* was read after it.
C9_Witness ==
    \E i \in 1..(Len(trace) - 1) :
        /\ IsRecv(trace[i]) /\ trace[i].cmd \in UnknownCmds
        /\ IsRecv(trace[i + 1])
        /\ LastReportBefore(i).State = "Paused"

\* Pause and then, as the next request, Continue have been processed.
PauseContinueDone ==
    /\ pc = "Receive"
    /\ Len(Reqs) >= 2
    /\ Reqs[Len(Reqs) - 1] = "Pause"
    /\ Reqs[Len(Reqs)] = "Continue"

\* C10: a Pause immediately followed by a Continue ends with the reported
\* state Running and a live worker instance that is not the instance that
\* was live before the Pause.
C10_PauseContinueNewInstance ==
    PauseContinueDone =>
        LET n == Len(trace)
        IN  /\ IsRecv(trace[n - 6]) /\ trace[n - 6].cmd = "Pause"
            /\ IsClose(trace[n - 5])
            /\ hostStatus.State = "Running"
            /\ trace[n] = ReportEv(Status("Running", accepts))
            /\ live = {c}
            /\ c # trace[n - 5].id

\* The Pause closed a live instance, and the Continue followed it directly.
C10_Witness ==
    /\ PauseContinueDone
    /\ trace[Len(trace) - 5].wasLive

\* C11: each call of eventlogWriter.Write(p) submits exactly one
\* informational record with event id 1 and message text p, without
\* buffering or retry, and returns count 0 with the event log's error
\* unmodified (nil on success).
C11_WriteSubmitsOneRecord ==
    LET kept == SelectSeq(written, LAMBDA w : w.sinkErr = "nil")
    IN  /\ \A i \in 1..Len(written) :
              /\ written[i].etype = "Info"
              /\ written[i].eid = 1
              /\ written[i].msg = written[i].p
              /\ written[i].n = 0
              /\ written[i].err = written[i].sinkErr
        /\ Len(elog) = 1 + Len(kept)
        /\ \A i \in 1..Len(kept) :
              elog[1 + i] = [etype |-> "Info", eid |-> 1, msg |-> kept[i].p]

\* "hello" was written and kept, and another Write got the event log's error.
C11_Witness ==
    /\ \E i \in 1..Len(written) :
          written[i].p = "hello" /\ written[i].err = "nil" /\ written[i].n = 0
    /\ \E i \in 1..Len(written) : written[i].err = "ERROR_INVALID_HANDLE"
    /\ Len(elog) = 2

\* C12: on every exit path of runWindowsService after the event-log writer
\* was installed as the log destination, the logger's destination is again
\* the one it had before the install.
C12_LogOutputRestored ==
    (rpc = "Done" /\ handle # "none") =>
        /\ logOutput = priorOutput
        /\ logOutput = "Stderr"

\* runWindowsService has returned errStop after svc.Run failed.
C12_Witness ==
    /\ rpc = "Done"
    /\ result = "errStop"
    /\ handle # "none"
    /\ logOutput = priorOutput

\* C13: if eventlog.Open or eventlog.InstallAsEventCreate fails,
\* runWindowsService returns an error and the controller never runs:
\* Execute is not called, no worker is started, no status is reported.
C13_NoControllerAfterSetupFailure ==
    failure \in {"Open", "Install"} =>
        /\ rpc \in {"Return", "Done"}
        /\ result \in {"err", "cannot install event log"}
        /\ pc = "NotStarted"
        /\ trace = <<>>
        /\ live = {}
        /\ hostStatus = Status("Stopped", {})

\* runWindowsService has returned after InstallAsEventCreate failed.
C13_Witness ==
    /\ rpc = "Done"
    /\ failure = "Install"
    /\ result = "cannot install event log"

\* C14: every status report reflects the worker state at the moment it is
\* sent: Running only while exactly one worker is live, after its start;
\* Paused only while no worker is live, after its Close; reports come in
\* the order of the transitions that produced them.
C14_ReportsReflectWorker ==
    /\ (trace # <<>> /\ IsReport(trace[Len(trace)])) =>
          LET st == trace[Len(trace)].status.State
          IN  /\ st = "Running" => live = {c}
              /\ st = "Paused" => live = {}
              /\ hostStatus = trace[Len(trace)].status
    /\ \A i \in 2..Len(trace) :
          (IsReport(trace[i]) /\ ~IsRecv(trace[i - 1])) =>
              /\ trace[i].status.State = "Running" => IsStart(trace[i - 1])
              /\ trace[i].status.State \in {"Paused", "StopPending"} => IsClose(trace[i - 1])

\* Running has just been reported for the worker a Continue started, after
\* a report of Paused.
C14_Witness ==
    /\ Len(trace) >= 2
    /\ trace[Len(trace)] = ReportEv(Status("Running", accepts))
    /\ IsStart(trace[Len(trace) - 1])
    /\ \E i \in 1..Len(trace) : IsReport(trace[i]) /\ trace[i].status.State = "Paused"
    /\ live = {c}

\* C15 as claimed: when a Stop or Shutdown request is processed the
\* StopPending report is sent before the worker's Close returns.
C15_StopPendingBeforeClose ==
    \A i \in 1..Len(trace) :
        StopProcessedAt(i) => IsReport(trace[i + 1]) /\ IsClose(trace[i + 2])

\* C15 as amended: when a Stop or Shutdown request is processed the
\* worker's Close is called and returns first, and the StopPending report
\* is sent after it.
C15_Amended ==
    \A i \in 1..Len(trace) :
        (IsRecv(trace[i]) /\ trace[i].cmd \in {"Stop", "Shutdown"}) =>
            /\ i + 1 <= Len(trace) => IsClose(trace[i + 1])
            /\ i + 2 <= Len(trace) => trace[i + 2] = ReportEv(Status("StopPending", {}))
            /\ i = Len(trace) => pc \in {"Stop", "Shutdown"}
            /\ i + 1 = Len(trace) => pc \in {"StopSend", "ShutdownSend"}

\* A Stop and a Shutdown have both been processed.
C15_Witness ==
    /\ \E i \in 1..Len(trace) : StopProcessedAt(i) /\ trace[i].cmd = "Stop"
    /\ \E i \in 1..Len(trace) : StopProcessedAt(i) /\ trace[i].cmd = "Shutdown"

\* The report a Pause request produced: the one sent right after its Close.
IsPauseReport(i) ==
    /\ i >= 3
    /\ IsReport(trace[i])
    /\ IsClose(trace[i - 1])
    /\ IsRecv(trace[i - 2]) /\ trace[i - 2].cmd = "Pause"

\* C16 as claimed: the Paused report of a Pause request carries the accepts
\* set {Continue, Stop, Shutdown}, distinct from the Running report's.
C16_PausedAcceptsWithoutPause ==
    \A i \in 1..Len(trace) :
        IsPauseReport(i) =>
            /\ trace[i].status = Status("Paused", {"Continue", "Stop", "Shutdown"})
            /\ trace[i].status.Accepts # Reports[2].Accepts

\* C16 as amended: the Paused report of a Pause request carries the same
\* accepts set as the Running report, {Stop, Shutdown, Pause, Continue}.
C16_Amended ==
    \A i \in 1..Len(trace) :
        IsPauseReport(i) =>
            /\ trace[i].status = Status("Paused", {"Stop", "Shutdown", "Pause", "Continue"})
            /\ trace[i].status.Accepts = Reports[2].Accepts

\* A Pause request has been processed.
C16_Witness ==
    /\ pc = "Receive"
    /\ \E i \in 1..Len(trace) : IsPauseReport(i)

\* C17: the first report Execute sends is StartPending with an empty
\* accepts set, sent before the first worker start; the Running report is
\* always the second report.
C17_StartPendingFirst ==
    /\ trace # <<>> => trace[1] = ReportEv(Status("StartPending", {}))
    /\ pc # "SendStartPending" => trace # <<>>
    /\ Len(Reports) >= 2 => Reports[2] = Status("Running", accepts)
    /\ pc \notin {"SendStartPending", "Start", "SendRunning"} => Len(Reports) >= 2
    /\ \A i \in 1..Len(trace) : IsRecv(trace[i]) \/ IsStart(trace[i]) => i >= 2

\* The worker has been started and Running has been reported.
C17_Witness ==
    /\ Len(Reports) = 2
    /\ NumStarts = 1
    /\ IsStart(trace[2])

\* The number of requests with a recognized code among those read.
NumKnown == Len(SelectSeq(RecvEvents, LAMBDA e : e.cmd \in KnownCmds))

\* The number of reports sent after the request read at position i and
\* before the next request was read.
ReportsFor(i) ==
    LET later == {j \in (i + 1)..Len(trace) : IsRecv(trace[j])}
        nxt == IF later = {} THEN Len(trace) + 1
               ELSE CHOOSE j \in later : \A k \in later : j <= k
    IN  Cardinality({j \in (i + 1)..(nxt - 1) : IsReport(trace[j])})

\* C18: each processed request with a recognized code causes exactly one
\* report before the next request is read, so after n recognized and any
\* number of unrecognized requests n + 2 reports have been sent.
C18_OneReportPerRequest ==
    /\ pc = "Receive" => Len(Reports) = NumKnown + 2
    /\ \A i \in 1..Len(trace) :
          (IsRecv(trace[i]) /\ (pc = "Receive" \/ \E j \in (i + 1)..Len(trace) : IsRecv(trace[j]))) =>
              ReportsFor(i) = IF trace[i].cmd \in KnownCmds THEN 1 ELSE 0

\* Recognized and unrecognized requests have been processed, a Continue
\* among them.
C18_Witness ==
    /\ pc = "Receive"
    /\ NumKnown >= 2
    /\ NumKnown < Len(Reqs)
    /\ \E i \in 1..Len(Reqs) : Reqs[i] = "Continue"

\* All reports the first k requests call for have been sent.
Answered(k) ==
    /\ Len(Reqs) >= k
    /\ Len(Reports) >= 2 + Cardinality({j \in 1..k : Reqs[j] \in KnownCmds})

\* C19: if every Close returns and the service manager always receives
\* from statusCh, Execute never blocks forever inside a request: every
\* request offered on changeReqCh is eventually received, in the order
\* offered, and each recognized request is eventually answered with its
\* report.
C19_RequestsConsumedAndAnswered ==
    /\ \A cmd \in Cmds : (pending = cmd) ~> (pending = "None" /\ changeReq.Cmd = cmd)
    /\ \A k \in 1..(MaxOffers + 1) : (Len(Reqs) >= k) ~> (pc = "Receive" /\ Answered(k))
    /\ [][pending # "None" /\ pending' = "None" =>
            trace' = Append(trace, RecvEv(pending))]_vars

\* Requests offered after a Stop have been received and answered.
C19_Witness ==
    /\ pc = "Receive"
    /\ pending = "None"
    /\ Len(Reqs) >= 3
    /\ Reqs[1] = "Stop"
    /\ Answered(Len(Reqs))

\* C20: the logger's destination never refers to a closed event log: on
\* every exit path the output is back on stderr before the handle is
\* closed, and the handle is closed exactly once on every path on which it
\* was opened.
C20_NoClosedLogDestination ==
    /\ logOutput = "Eventlog" => handle = "open"
    /\ handleCloses <= 1
    /\ handle = "closed" <=> handleCloses = 1
    /\ rpc = "Done" =>
          \/ handle = "closed" /\ logOutput = "Stderr"
          \/ handle = "none" /\ failure = "Open"

\* runWindowsService has returned nil with the handle closed.
C20_Witness ==
    /\ rpc = "Done"
    /\ result = "nil"
    /\ handle = "closed"
    /\ handleCloses = 1

====
